---- MODULE Spec2Model ----
(***************************************************************************)
(* A model of CalimaStarReinflector.reinflect                              *)
(* (camel_tools/calima_star/reinflector.py).                               *)
(*                                                                         *)
(* Python strings that the code takes apart (the word, 'diac', 'lex') are  *)
(* sequences of one-character strings; every other feature value is a      *)
(* plain string. A Python dict is a function whose DOMAIN is its key set.  *)
(* A value that may be None is a sequence of length at most one: <<>> is   *)
(* None and <<v>> is the value v.                                          *)
(***************************************************************************)
EXTENDS Naturals, Sequences, FiniteSets, TLC

VARIABLES
    word,            \* argument `word` of reinflect
    feats,           \* argument `feats` of reinflect (the overrides)
    analyses,        \* what self._analyzer.analyze(word) returned
    pc,              \* position in reinflect
    has_clitics,     \* local has_clitics
    idx,             \* position of the `for analysis in analyses` loop
    lemma,           \* local lemma of the current analysis
    is_valid,        \* local is_valid of the current analysis
    generate_feats,  \* local generate_feats of the current analysis
    results,         \* local results (the deque)
    raised,          \* the exception that left reinflect, if any
    returned,        \* the value reinflect returned, if any
    calls            \* history: the calls made to self._generator.generate

vars == <<word, feats, analyses, pc, has_clitics, idx, lemma, is_valid,
          generate_feats, results, raised, returned, calls>>

----------------------------------------------------------------------------
(* Bounds of the model *)

\* longest list of analyses the analyzer returns
MaxAnalyses == 3

\* largest number of keys in the overrides
MaxFeats == 2

----------------------------------------------------------------------------
(* None and optional values *)

None == <<>>

Some(v) == <<v>>

IsNone(o) == o = <<>>

Val(o) == o[1]

EmptyDict == <<>>

----------------------------------------------------------------------------
(* Module constants, reinflector.py lines 21-31 *)

_CLITIC_FEATS == {"enc0", "prc0", "prc1", "prc2", "prc3"}

_IGNORED_FEATS == {"diac", "lex", "bw", "gloss", "source", "stem",
                   "stemcat", "lmm", "dediac", "caphi", "catib6",
                   "ud", "d3seg", "atbseg", "d2seg", "d1seg", "d1tok",
                   "d2tok", "atbtok", "d3tok", "root", "pattern",
                   "freq", "POS_prob", "stemgloss"}

_SPECIFIED_FEATS == {"form_gen", "form_num"}

_CLITIC_IGNORED_FEATS == {"stt", "cas", "mod"}

\* the characters _LEMMA_SPLIT_RE = re.compile(r'-|_') splits on
_LEMMA_SPLIT_CHARS == {"-", "_"}

----------------------------------------------------------------------------
(* External collaborators *)

\* The characters dediac_ar removes (camel_tools.utils.dediac).
AR_DIAC == {"FATHATAN", "DAMMATAN", "KASRATAN", "FATHA", "DAMMA", "KASRA",
            "SHADDA", "SUKUN", "DAGGER_ALIF", "TATWEEL"}

\* dediac_ar(s): s without its diacritic marks.
dediac_ar(s) == SelectSeq(s, LAMBDA c : c \notin AR_DIAC)

\* self._db.defines: feature name -> None (open domain) or a set of values.
Defines == [pos      |-> Some({"verb", "noun", "na"}),
            lex      |-> None,
            diac     |-> None,
            cas      |-> Some({"n", "a", "g", "u", "na"}),
            form_gen |-> Some({"m", "f", "na"}),
            prc0     |-> Some({"0", "na", "la_neg"})]

\* What self._generator.generate(lemma, feats) may return: None, no form,
\* or forms that carry the lemma and features they were generated from.
GeneratorOutputs(lem, gf) ==
    {None, Some(<<>>),
     Some(<<[lex |-> lem, feats |-> gf, n |-> 1],
            [lex |-> lem, feats |-> gf, n |-> 2]>>)}

----------------------------------------------------------------------------
(* Inputs *)

Words == {<<"k", "FATHA", "t">>, <<"k", "t", "b">>}

DiacValues == {<<"k", "KASRA", "t">>, <<"k", "t", "SUKUN", "b">>}

LexValues == {<<"k", "-", "1">>, <<"m", "_", "1", "-", "2">>}

PosValues == {"verb", "noun"}

CasValues == {"n", "na"}

FormGenDicts == {EmptyDict} \cup {[form_gen |-> v] : v \in {"m", "na"}}

\* An analysis always has 'diac', 'lex' and 'pos'.
AnalysisSpace ==
    {[diac |-> d, lex |-> l, pos |-> p, cas |-> c] @@ fg :
        d \in DiacValues, l \in LexValues, p \in PosValues,
        c \in CasValues, fg \in FormGenDicts}

\* The analyses that lists of more than one analysis are made of.
AnalysisPool ==
    {[diac |-> <<"k", "KASRA", "t">>, lex |-> <<"k", "-", "1">>,
      pos |-> "verb", cas |-> "n"],
     [diac |-> <<"k", "KASRA", "t">>, lex |-> <<"m", "_", "1", "-", "2">>,
      pos |-> "noun", cas |-> "n", form_gen |-> "m"],
     [diac |-> <<"k", "KASRA", "t">>, lex |-> <<"k", "-", "1">>,
      pos |-> "verb", cas |-> "na"],
     [diac |-> <<"k", "t", "SUKUN", "b">>, lex |-> <<"k", "-", "1">>,
      pos |-> "verb", cas |-> "n"]}

SeqsUpTo(S, n) == UNION {[1..k -> S] : k \in 0..n}

AnalyzerOutputs ==
    {None}
    \cup {Some(s) : s \in SeqsUpTo(AnalysisPool, MaxAnalyses)}
    \cup {Some(<<a>>) : a \in AnalysisSpace}

\* The override values tried for each key; "foo" is not in the schema and
\* "zz" is not a value of 'pos'.
StringFeatValues == [pos |-> {"verb", "zz"}, cas |-> {"a"}, prc0 |-> {"0"},
                     form_gen |-> {"f"}, foo |-> {"x"}]

StringFeats ==
    {f \in UNION {[K -> UNION {StringFeatValues[k] : k \in K}] :
                    K \in {S \in SUBSET DOMAIN StringFeatValues :
                             Cardinality(S) <= MaxFeats}} :
        \A k \in DOMAIN f : f[k] \in StringFeatValues[k]}

LexFeats == {EmptyDict, [lex |-> <<"k">>]}

FeatsSpace ==
    {f @@ lx : f \in {g \in StringFeats : Cardinality(DOMAIN g) < MaxFeats},
               lx \in LexFeats}
    \cup StringFeats

\* Every order a dict with key set S can be iterated in.
RECURSIVE Orders(_)
Orders(S) ==
    IF S = {} THEN {<<>>}
    ELSE UNION {{<<x>> \o o : o \in Orders(S \ {x})} : x \in S}

----------------------------------------------------------------------------
\* NoAnalyses without the test for an empty list
NoAnalyses_OnlyNone(out) == IsNone(out)

(* reinflect, line 80: `not analyses or len(analyses) == 0` *)
NoAnalyses(out) == IsNone(out) \/ Len(Val(out)) = 0

(* reinflect, lines 83-88: the check of one override, and the loop *)

\* ValidateFeat without the test of lines 84-85
ValidateFeat_SkipUnknown(fts, feat) ==
    IF /\ feat \in DOMAIN Defines
       /\ ~IsNone(Defines[feat])
       /\ fts[feat] \notin Val(Defines[feat])
    THEN Some([type |-> "InvalidReinflectorFeatureValue",
               args |-> <<feat, fts[feat]>>])
    ELSE None

\* ValidateFeat without the test of lines 86-88
ValidateFeat_NoValueCheck(fts, feat) ==
    IF feat \notin DOMAIN Defines
    THEN Some([type |-> "InvalidReinflectorFeature", args |-> <<feat>>])
    ELSE None

ValidateFeat(fts, feat) ==
    IF feat \notin DOMAIN Defines
    THEN Some([type |-> "InvalidReinflectorFeature", args |-> <<feat>>])
    ELSE IF ~IsNone(Defines[feat]) /\ fts[feat] \notin Val(Defines[feat])
    THEN Some([type |-> "InvalidReinflectorFeatureValue",
               args |-> <<feat, fts[feat]>>])
    ELSE None

RECURSIVE ValidateLoop(_, _)
ValidateLoop(fts, order) ==
    IF order = <<>> THEN None
    ELSE IF ~IsNone(ValidateFeat(fts, Head(order)))
    THEN ValidateFeat(fts, Head(order))
    ELSE ValidateLoop(fts, Tail(order))

(* lines 90-94 *)
HasClitics(fts) == \E feat \in _CLITIC_FEATS : feat \in DOMAIN fts

\* LemmaOf splitting on '-' only
LemmaOf_DashOnly(lex) ==
    LET cuts == {i \in 1..Len(lex) : lex[i] = "-"}
    IN  IF cuts = {} THEN lex
        ELSE SubSeq(lex, 1, (CHOOSE i \in cuts : \A j \in cuts : i <= j) - 1)

(* line 105: _LEMMA_SPLIT_RE.split(lex)[0] *)
LemmaOf(lex) ==
    LET cuts == {i \in 1..Len(lex) : lex[i] \in _LEMMA_SPLIT_CHARS}
    IN  IF cuts = {} THEN lex
        ELSE SubSeq(lex, 1, (CHOOSE i \in cuts : \A j \in cuts : i <= j) - 1)

(* lines 99, 102, 107: the three tests that drop an analysis *)
SurfaceMismatch(analysis, w) == dediac_ar(analysis["diac"]) # dediac_ar(w)

PosMismatch(analysis, fts) ==
    "pos" \in DOMAIN fts /\ fts["pos"] # analysis["pos"]

LexMismatch(analysis, fts) ==
    "lex" \in DOMAIN fts /\ fts["lex"] # LemmaOf(analysis["lex"])

\* MergeFeat skipping, instead of rejecting on, an overridden 'na' feature
MergeFeat_SkipNaOverride(st, analysis, fts, hc, feat) ==
    IF feat \in _IGNORED_FEATS THEN st
    ELSE IF feat \in _SPECIFIED_FEATS /\ feat \notin DOMAIN fts THEN st
    ELSE IF hc /\ feat \in _CLITIC_IGNORED_FEATS THEN st
    ELSE IF analysis[feat] = "na" THEN st
    ELSE IF feat \in DOMAIN fts
    THEN [st EXCEPT !.generate_feats = (feat :> fts[feat]) @@ @]
    ELSE [st EXCEPT !.generate_feats = (feat :> analysis[feat]) @@ @]

\* MergeFeat without the branch of lines 118-119
MergeFeat_NoCliticRelax(st, analysis, fts, hc, feat) ==
    IF feat \in _IGNORED_FEATS THEN st
    ELSE IF feat \in _SPECIFIED_FEATS /\ feat \notin DOMAIN fts THEN st
    ELSE IF feat \in DOMAIN fts
    THEN IF analysis[feat] # "na"
         THEN [st EXCEPT !.generate_feats = (feat :> fts[feat]) @@ @]
         ELSE [st EXCEPT !.is_valid = FALSE]
    ELSE IF analysis[feat] # "na"
    THEN [st EXCEPT !.generate_feats = (feat :> analysis[feat]) @@ @]
    ELSE st

\* MergeFeat keeping the analysis's value of an overridden feature
MergeFeat_KeepsAnalysisValue(st, analysis, fts, hc, feat) ==
    IF feat \in _IGNORED_FEATS THEN st
    ELSE IF feat \in _SPECIFIED_FEATS /\ feat \notin DOMAIN fts THEN st
    ELSE IF hc /\ feat \in _CLITIC_IGNORED_FEATS THEN st
    ELSE IF feat \in DOMAIN fts /\ analysis[feat] = "na"
    THEN [st EXCEPT !.is_valid = FALSE]
    ELSE IF analysis[feat] # "na"
    THEN [st EXCEPT !.generate_feats = (feat :> analysis[feat]) @@ @]
    ELSE st

\* MergeFeat carrying an 'na' value forward (line 127 without its test)
MergeFeat_CarriesNa(st, analysis, fts, hc, feat) ==
    IF feat \in _IGNORED_FEATS THEN st
    ELSE IF feat \in _SPECIFIED_FEATS /\ feat \notin DOMAIN fts THEN st
    ELSE IF hc /\ feat \in _CLITIC_IGNORED_FEATS THEN st
    ELSE IF feat \in DOMAIN fts
    THEN IF analysis[feat] # "na"
         THEN [st EXCEPT !.generate_feats = (feat :> fts[feat]) @@ @]
         ELSE [st EXCEPT !.is_valid = FALSE]
    ELSE [st EXCEPT !.generate_feats = (feat :> analysis[feat]) @@ @]

(* lines 114-128: the body of `for feat in analysis.keys()` *)
MergeFeat(st, analysis, fts, hc, feat) ==
    IF feat \in _IGNORED_FEATS THEN st
    ELSE IF feat \in _SPECIFIED_FEATS /\ feat \notin DOMAIN fts THEN st
    ELSE IF hc /\ feat \in _CLITIC_IGNORED_FEATS THEN st
    ELSE IF feat \in DOMAIN fts
    THEN IF analysis[feat] # "na"
         THEN [st EXCEPT !.generate_feats = (feat :> fts[feat]) @@ @]
         ELSE [st EXCEPT !.is_valid = FALSE]
    ELSE IF analysis[feat] # "na"
    THEN [st EXCEPT !.generate_feats = (feat :> analysis[feat]) @@ @]
    ELSE st

\* Extend adding the generated forms at the front (extendleft)
Extend_Left(res, generated) ==
    IF ~IsNone(generated)
    THEN [i \in 1..Len(Val(generated)) |->
            Val(generated)[Len(Val(generated)) + 1 - i]] \o res
    ELSE res

(* lines 132-133: `if generated is not None: results.extend(generated)` *)
Extend(res, generated) ==
    IF ~IsNone(generated) THEN res \o Val(generated) ELSE res

(* lines 110-128: the loop, left by `break` once is_valid is False *)
RECURSIVE MergeLoop(_, _, _, _, _)
MergeLoop(st, analysis, fts, hc, order) ==
    IF order = <<>> \/ ~st.is_valid THEN st
    ELSE MergeLoop(MergeFeat(st, analysis, fts, hc, Head(order)),
                   analysis, fts, hc, Tail(order))

----------------------------------------------------------------------------
(* The state machine of one call of reinflect *)

Init ==
    /\ word \in Words
    /\ feats \in FeatsSpace
    /\ analyses = None
    /\ pc = "analyze"
    /\ has_clitics = FALSE
    /\ idx = 0
    /\ lemma = <<>>
    /\ is_valid = TRUE
    /\ generate_feats = EmptyDict
    /\ results = <<>>
    /\ raised = None
    /\ returned = None
    /\ calls = <<>>

(* lines 78-81 *)
Analyze ==
    /\ pc = "analyze"
    /\ \E out \in AnalyzerOutputs :
        /\ analyses' = out
        /\ IF NoAnalyses(out)
           THEN returned' = Some(<<>>) /\ pc' = "done"
           ELSE returned' = returned /\ pc' = "validate"
    /\ UNCHANGED <<word, feats, has_clitics, idx, lemma, is_valid,
                   generate_feats, results, raised, calls>>

(* lines 83-96 *)
Validate ==
    /\ pc = "validate"
    /\ \E err \in {ValidateLoop(feats, order) :
                      order \in Orders(DOMAIN feats)} :
            IF ~IsNone(err)
            THEN /\ raised' = err
                 /\ pc' = "done"
                 /\ UNCHANGED <<has_clitics, idx>>
            ELSE /\ has_clitics' = HasClitics(feats)
                 /\ idx' = 1
                 /\ pc' = "filter"
                 /\ UNCHANGED raised
    /\ UNCHANGED <<word, feats, analyses, lemma, is_valid, generate_feats,
                   results, returned, calls>>

(* lines 98-111 *)
Filter ==
    /\ pc = "filter"
    /\ idx <= Len(Val(analyses))
    /\ LET analysis == Val(analyses)[idx]
       IN  IF \/ SurfaceMismatch(analysis, word)
              \/ PosMismatch(analysis, feats)
              \/ LexMismatch(analysis, feats)
           THEN /\ idx' = idx + 1
                /\ lemma' = IF SurfaceMismatch(analysis, word)
                               \/ PosMismatch(analysis, feats)
                            THEN lemma
                            ELSE LemmaOf(analysis["lex"])
                /\ UNCHANGED <<pc, is_valid, generate_feats>>
           ELSE /\ lemma' = LemmaOf(analysis["lex"])
                /\ is_valid' = TRUE
                /\ generate_feats' = EmptyDict
                /\ pc' = "merge"
                /\ UNCHANGED idx
    /\ UNCHANGED <<word, feats, analyses, has_clitics, results, raised,
                   returned, calls>>

(* lines 113-128 *)
Merge ==
    /\ pc = "merge"
    /\ LET analysis == Val(analyses)[idx]
       IN  \E st \in {MergeLoop([is_valid |-> TRUE,
                                  generate_feats |-> EmptyDict],
                                 analysis, feats, has_clitics, order) :
                          order \in Orders(DOMAIN analysis)} :
            /\ is_valid' = st.is_valid
            /\ generate_feats' = st.generate_feats
    /\ pc' = "generate"
    /\ UNCHANGED <<word, feats, analyses, has_clitics, idx, lemma, results,
                   raised, returned, calls>>

\* Generate without the test of is_valid
Generate_IgnoresValid ==
    /\ pc = "generate"
    /\ \E out \in GeneratorOutputs(lemma, generate_feats) :
          /\ calls' = Append(calls, [idx |-> idx, lemma |-> lemma,
                                     feats |-> generate_feats,
                                     out |-> out])
          /\ results' = Extend(results, out)
    /\ idx' = idx + 1
    /\ pc' = "filter"
    /\ UNCHANGED <<word, feats, analyses, has_clitics, lemma, is_valid,
                   generate_feats, raised, returned>>

(* lines 130-133 *)
Generate ==
    /\ pc = "generate"
    /\ IF is_valid
       THEN \E out \in GeneratorOutputs(lemma, generate_feats) :
              /\ calls' = Append(calls, [idx |-> idx, lemma |-> lemma,
                                         feats |-> generate_feats,
                                         out |-> out])
              /\ results' = Extend(results, out)
       ELSE UNCHANGED <<calls, results>>
    /\ idx' = idx + 1
    /\ pc' = "filter"
    /\ UNCHANGED <<word, feats, analyses, has_clitics, lemma, is_valid,
                   generate_feats, raised, returned>>

(* line 135 *)
Return ==
    /\ pc = "filter"
    /\ idx > Len(Val(analyses))
    /\ returned' = Some(results)
    /\ pc' = "done"
    /\ UNCHANGED <<word, feats, analyses, has_clitics, idx, lemma, is_valid,
                   generate_feats, results, raised, calls>>

Next == Analyze \/ Validate \/ Filter \/ Merge \/ Generate \/ Return

Spec == Init /\ [][Next]_vars

----------------------------------------------------------------------------
(* Vocabulary of the properties, stated on the inputs and the history *)

\* the analyzer has answered
Analysed == pc # "analyze"

\* the analyzer returned None or an empty list
AnalyzerGaveNothing == IsNone(analyses) \/ Val(analyses) = <<>>

\* the override keys the schema does not define
UnknownKeys == {k \in DOMAIN feats : k \notin DOMAIN Defines}

\* the override keys whose finite schema domain lacks the override value
BadValueKeys ==
    {k \in DOMAIN feats \cap DOMAIN Defines :
        Defines[k] # None /\ feats[k] \notin Defines[k][1]}

OverridesValid == UnknownKeys = {} /\ BadValueKeys = {}

RaisedType == IF raised = None THEN "" ELSE raised[1].type

\* the generator was invoked for the analysis at position i
InvokedFor(i) == \E j \in 1..Len(calls) : calls[j].idx = i

\* the analyses the loop has finished with
Finished ==
    IF analyses = None THEN {} ELSE {i \in 1..Len(analyses[1]) : i < idx}

RECURSIVE ConcatOutputs(_)
ConcatOutputs(cs) ==
    IF cs = <<>> THEN <<>>
    ELSE (IF Head(cs).out = None THEN <<>> ELSE Head(cs).out[1])
         \o ConcatOutputs(Tail(cs))

----------------------------------------------------------------------------
(* C1 *)

----------------------------------------------------------------------------
(* C2 *)

----------------------------------------------------------------------------
(* C3 *)

----------------------------------------------------------------------------
(* Vocabulary of the per-analysis properties *)

\* the features whose values are character sequences in this model
CharSeqFeats == {"diac", "lex"}

\* the value of feature k in analysis a is the sentinel 'na'
IsNA(a, k) ==
    IF k \in CharSeqFeats THEN a[k] = <<"n", "a">> ELSE a[k] = "na"

\* l is the segment of lex before its first '-' or '_'
IsLeadingSegment(l, lex) ==
    /\ Len(l) <= Len(lex)
    /\ \A i \in 1..Len(l) : l[i] = lex[i] /\ l[i] \notin {"-", "_"}
    /\ Len(l) < Len(lex) => lex[Len(l) + 1] \in {"-", "_"}

\* the analysis passes the three tests of the filter
PassesFilter(a) ==
    /\ dediac_ar(a["diac"]) = dediac_ar(word)
    /\ "pos" \in DOMAIN feats => feats["pos"] = a["pos"]
    /\ "lex" \in DOMAIN feats => IsLeadingSegment(feats["lex"], a["lex"])

\* the overrides hold a clitic-slot feature
OverridesHaveClitic ==
    DOMAIN feats \cap {"enc0", "prc0", "prc1", "prc2", "prc3"} # {}

\* feature f of an analysis is skipped by the merger whatever its value
SkippedFeat(f) ==
    \/ f \in _IGNORED_FEATS
    \/ f \in {"form_gen", "form_num"} /\ f \notin DOMAIN feats
    \/ OverridesHaveClitic /\ f \in {"stt", "cas", "mod"}

\* an override targets a feature of a that the merger does not skip and
\* whose value in a is 'na'
NaConflicts(a) ==
    {k \in DOMAIN feats \cap DOMAIN a : ~SkippedFeat(k) /\ IsNA(a, k)}

\* the feature set the claims expect the generator to receive for a
ExpectedFeats(a) ==
    [f \in {g \in DOMAIN a :
              /\ ~SkippedFeat(g)
              /\ g \in DOMAIN feats \/ ~IsNA(a, g)}
        |-> IF f \in DOMAIN feats THEN feats[f] ELSE a[f]]

----------------------------------------------------------------------------
(* C4 *)

\* C4, as claimed: for every analysis and every override key k whose value
\* in the analysis is 'na', the generator is not invoked for the analysis,
\* whichever feature k is.
C4_AsClaimed ==
    \A j \in 1..Len(calls) :
        LET a == analyses[1][calls[j].idx]
        IN  \A k \in DOMAIN feats \cap DOMAIN a : ~IsNA(a, k)

\* C4, amended: for every analysis and every override key k whose value in
\* the analysis is 'na', the generator is not invoked for the analysis and
\* it contributes no form, provided k is not an ignored feature and is not
\* one of stt, cas, mod while the overrides hold a clitic-slot feature.
C4_NaOverrideExcludes ==
    /\ \A j \in 1..Len(calls) : NaConflicts(analyses[1][calls[j].idx]) = {}
    /\ results = ConcatOutputs(calls)

\* C4 witness: the call returned after an analysis that passed the filter
\* and whose 'na' feature was overridden.
C4_Witness ==
    /\ pc = "done"
    /\ returned # None
    /\ raised = None
    /\ \E i \in Finished :
        /\ PassesFilter(analyses[1][i])
        /\ NaConflicts(analyses[1][i]) # {}
        /\ ~InvokedFor(i)

----------------------------------------------------------------------------
(* C5 *)

\* C5: if the overrides hold a clitic-slot feature, then for every analysis
\* that passes the filter stt, cas and mod never cause a rejection (an
\* analysis whose only overridden 'na' features are among them is submitted
\* to the generator) and never are keys of a submitted feature set.
C5_CliticsRelaxSttCasMod ==
    OverridesHaveClitic
        => /\ \A j \in 1..Len(calls) :
                DOMAIN calls[j].feats \cap {"stt", "cas", "mod"} = {}
           /\ \A i \in Finished :
                LET a == analyses[1][i]
                IN  (/\ PassesFilter(a)
                     /\ \A k \in DOMAIN feats \cap DOMAIN a :
                            IsNA(a, k) => k \in {"stt", "cas", "mod"})
                        => InvokedFor(i)

\* C5 witness: with a clitic override and an override of cas, the generator
\* was invoked for an analysis whose cas is 'na'.
C5_Witness ==
    /\ OverridesHaveClitic
    /\ "cas" \in DOMAIN feats
    /\ \E j \in 1..Len(calls) :
        /\ analyses[1][calls[j].idx]["cas"] = "na"
        /\ "cas" \notin DOMAIN calls[j].feats

----------------------------------------------------------------------------
(* C8 *)

\* C8: the feature set of every generator invocation is exactly, for each
\* key f of the analysis: absent if f is ignored; else absent if f is
\* form_gen or form_num and not overridden; else absent if the overrides
\* hold a clitic and f is stt, cas or mod; else the override value if f is
\* overridden, the analysis value if it is not 'na', and absent otherwise.
\* With empty overrides it is the analysis's own values of its non-ignored,
\* non-form_gen/form_num, non-'na' features.
C8_GeneratedFeatureSet ==
    \A j \in 1..Len(calls) :
        LET a == analyses[1][calls[j].idx]
        IN  /\ calls[j].feats = ExpectedFeats(a)
            /\ feats = EmptyDict
                => calls[j].feats =
                     [f \in {g \in DOMAIN a \ _IGNORED_FEATS :
                               g \notin {"form_gen", "form_num"}
                               /\ a[g] # "na"}
                        |-> a[f]]

\* C8 witness: an invocation whose feature set holds an overridden value
\* that differs from the analysis's, a carried value, and lacks an
\* unspecified form_gen the analysis has.
C8_Witness ==
    \E j \in 1..Len(calls) :
        LET a == analyses[1][calls[j].idx]
        IN  /\ "cas" \in DOMAIN feats
            /\ calls[j].feats["cas"] = feats["cas"]
            /\ a["cas"] # feats["cas"]
            /\ "pos" \notin DOMAIN feats
            /\ calls[j].feats["pos"] = a["pos"]
            /\ "form_gen" \in DOMAIN a
            /\ "form_gen" \notin DOMAIN calls[j].feats

----------------------------------------------------------------------------
(* C10 *)

\* C10: in every generator invocation the keys of the submitted feature set
\* are keys of the analysis it was built from, each with a value other than
\* 'na' in that analysis; an override whose key the analysis lacks is not
\* submitted and does not reject the analysis.
C10_SubmittedKeysFromAnalysis ==
    /\ \A j \in 1..Len(calls) :
        LET a == analyses[1][calls[j].idx]
        IN  /\ DOMAIN calls[j].feats \subseteq DOMAIN a
            /\ \A k \in DOMAIN calls[j].feats : ~IsNA(a, k)
            /\ \A k \in DOMAIN feats \ DOMAIN a :
                    k \notin DOMAIN calls[j].feats
    /\ \A i \in Finished :
        LET a == analyses[1][i]
        IN  (/\ PassesFilter(a)
             /\ \A k \in DOMAIN feats \cap DOMAIN a : ~IsNA(a, k))
                => InvokedFor(i)

\* C10 witness: the generator was invoked for an analysis that lacks an
\* overridden key.
C10_Witness ==
    \E j \in 1..Len(calls) :
        /\ DOMAIN feats \ DOMAIN analyses[1][calls[j].idx] # {}
        /\ calls[j].feats # EmptyDict

----------------------------------------------------------------------------
(* Vocabulary of the properties of the whole loop *)

\* the analysis at position i passes the filter and is not rejected
Eligible(i) ==
    PassesFilter(analyses[1][i]) /\ NaConflicts(analyses[1][i]) = {}

\* the eligible positions among the first n, in analyzer order
EligibleUpTo(n) ==
    SelectSeq([i \in 1..n |-> i], LAMBDA i : Eligible(i))

\* the positions the generator was invoked for, in invocation order
InvokedPositions == [j \in 1..Len(calls) |-> calls[j].idx]

\* the loop over the analyses has been entered
ValidationPassed == idx >= 1

----------------------------------------------------------------------------
(* C6 *)

\* C6: when validation passes, the generator is invoked exactly once, in
\* analyzer order, for each analysis that passes the filter and is not
\* rejected, and for no other; the accumulated and the returned sequence are
\* the concatenation of the invocations' outputs in that order.
C6_ResultIsConcatenation ==
    /\ ~ValidationPassed => calls = <<>>
    /\ ValidationPassed
        => /\ InvokedPositions = EligibleUpTo(idx - 1)
           /\ results = ConcatOutputs(calls)
           /\ pc = "done"
                => /\ idx = Len(analyses[1]) + 1
                   /\ returned = Some(ConcatOutputs(calls))

\* C6 witness: three surface-matching analyses with pos verb, noun, verb and
\* overrides {pos: verb}: the call returned after exactly two invocations,
\* with different feature sets, both with output.
C6_Witness ==
    /\ pc = "done"
    /\ feats = [pos |-> "verb"]
    /\ returned # None
    /\ ~AnalyzerGaveNothing
    /\ Len(analyses[1]) = 3
    /\ \A i \in 1..3 : ~SurfaceMismatch(analyses[1][i], word)
    /\ [i \in 1..3 |-> analyses[1][i]["pos"]] = <<"verb", "noun", "verb">>
    /\ InvokedPositions = <<1, 3>>
    /\ calls[1].feats # calls[2].feats
    /\ Len(returned[1]) = 4

----------------------------------------------------------------------------
(* C7 *)

\* C7: the generator is never invoked for an analysis whose dediacritized
\* diac differs from the dediacritized word, whose pos differs from an
\* overridden pos, or whose derived lemma (the segment of lex before the
\* first '-' or '_') differs from an overridden lex; such an analysis
\* contributes no form; the lemma of every invocation is the derived lemma.
C7_FilterExcludes ==
    /\ \A j \in 1..Len(calls) :
        LET a == analyses[1][calls[j].idx]
        IN  /\ dediac_ar(a["diac"]) = dediac_ar(word)
            /\ "pos" \in DOMAIN feats => feats["pos"] = a["pos"]
            /\ "lex" \in DOMAIN feats => feats["lex"] = calls[j].lemma
            /\ IsLeadingSegment(calls[j].lemma, a["lex"])
    /\ results = ConcatOutputs(calls)

\* C7 witness: the call returned after dropping one analysis on its surface
\* form and one on its lemma, and invoking the generator for a third.
C7_Witness ==
    /\ pc = "done"
    /\ returned # None
    /\ "lex" \in DOMAIN feats
    /\ \E i, j, k \in Finished :
        /\ SurfaceMismatch(analyses[1][i], word)
        /\ ~SurfaceMismatch(analyses[1][j], word)
        /\ ~IsLeadingSegment(feats["lex"], analyses[1][j]["lex"])
        /\ ~InvokedFor(i) /\ ~InvokedFor(j)
        /\ InvokedFor(k)

----------------------------------------------------------------------------
(* C9 *)

\* the analysis at position i is dropped by the filter or rejected
Excluded(i) == ~Eligible(i)

\* C9: a per-analysis exclusion never aborts the call. Once the loop is
\* entered no error is raised; while an analysis is being handled every step
\* (a drop by the filter, a rejection, a generator output that is None or
\* empty) leaves the call running and moves to the same or the next
\* analysis; a rejected analysis causes no invocation, so its partial
\* feature set is never submitted; the call returns only after the last
\* analysis, every eligible analysis before it having been submitted.
C9_ExclusionNeverAborts ==
    /\ [](ValidationPassed
            => /\ raised = None
               /\ \A i \in Finished : Excluded(i) => ~InvokedFor(i)
               /\ pc = "done"
                    => /\ returned # None
                       /\ \A i \in 1..Len(analyses[1]) :
                            Eligible(i) => InvokedFor(i))
    /\ [][(pc \in {"merge", "generate"}
             \/ (pc = "filter" /\ idx <= Len(analyses[1])))
            => /\ raised' = None
               /\ returned' = None
               /\ pc' \in {"filter", "merge", "generate"}
               /\ idx' \in {idx, idx + 1}
               /\ (pc = "generate" /\ ~is_valid)
                    => calls' = calls /\ results' = results]_vars

\* C9 witness: the call returned after a rejected first analysis, a second
\* whose generator output was None and a third whose output was not.
C9_Witness ==
    /\ pc = "done"
    /\ returned # None
    /\ ~AnalyzerGaveNothing
    /\ Len(analyses[1]) = 3
    /\ PassesFilter(analyses[1][1])
    /\ NaConflicts(analyses[1][1]) # {}
    /\ InvokedPositions = <<2, 3>>
    /\ calls[1].out = None
    /\ calls[2].out # None
    /\ returned[1] # <<>>

====
